---- MODULE Spec2Model ----
(***************************************************************************)
(* Streaming windowed pitch analysis of music-analyzer-wasm-rs:            *)
(*   - AudioSamplesProcessor (src/src/audio_samples_processor.rs): a ring  *)
(*     of the most recent 128-sample chunks with absolute sample times;    *)
(*   - PitchDetector (src/src/pitch_detector.rs): the incremental driver   *)
(*     that slices an ingested view into overlapping windows, advances a   *)
(*     cursor and classifies onsets;                                       *)
(*   - Series (src/src/timeline.rs): a ring of the most recent pitch       *)
(*     events in chronological order;                                      *)
(*   - AudioSamplesProcessor and MusicAnalyzer of src/src/lib.rs: a ring   *)
(*     of i16 chunks from which an analyzer is created.                    *)
(* usize arithmetic is the checked arithmetic of the build the             *)
(* repository's tests run under: a subtraction below zero or a division by *)
(* zero panics, and a panic leaves the fields as they were at that point.  *)
(***************************************************************************)
EXTENDS Integers, Sequences, FiniteSets, TLC

VARIABLES
  \* ---- AudioSamplesProcessor (audio_samples_processor.rs) ----
  time_of_last_added_sample,   \* field: samples accepted so far
  recent_audio_sample_f32s,    \* field: CircularQueue<Vec<f32>>, oldest chunk first
  add_result,                  \* outcome of the last add_samples_chunk call
  pushed_chunks,               \* history: number of chunks accepted so far
  \* ---- PitchDetector (pitch_detector.rs) ----
  window,                      \* params.window
  time_of_first_sample,        \* field
  time_of_next_unprocessed_sample, \* field (the cursor)
  current_pitch,               \* field: Option<f32>
  audio_samples,               \* field: Vec<f32>
  pitches,                     \* the Vec<Pitch> the last pitches_vec returned
  analysed,                    \* the windows the last pitches_vec gave the estimator
  before,                      \* the detector's fields when the last call began
  calls,                       \* history: the detector calls made so far
  last_window,                 \* history: the window analysed most recently
  emitted_t,                   \* history: t of every Pitch returned by earlier drains
  pitches_result,              \* what the last pitches() call gave, and at which call
  new_result,                  \* the last PitchDetector::new attempt and its outcome
  ingest_arg,                  \* history: the arguments, when the last call was an ingest
  stream_pc,                   \* the step the per-chunk loop takes next
  \* ---- Series (timeline.rs) ----
  events,                      \* field: CircularQueue<SeriesEvent>, oldest event first
  added,                       \* history: every event accepted so far, in order
  series_call,                 \* the last call on the series, its argument and result
  \* ---- AudioSamplesProcessor and MusicAnalyzer (lib.rs) ----
  recent_audio_samples,        \* field: CircularQueue<Vec<i16>>, oldest chunk first
  lib_accepted,                \* history: number of chunks add_samples accepted
  lib_add_result,              \* outcome of the last add_samples call
  analyzer                     \* what the last create_analyzer call returned

procVars == <<time_of_last_added_sample, recent_audio_sample_f32s, add_result,
              pushed_chunks>>
detVars == <<window, time_of_first_sample, time_of_next_unprocessed_sample,
             current_pitch, audio_samples, pitches, analysed, before,
             calls, last_window, emitted_t>>
apiVars == <<pitches_result, new_result, ingest_arg, stream_pc>>
seriesVars == <<events, added, series_call>>
libVars == <<recent_audio_samples, lib_accepted, lib_add_result, analyzer>>
restVars == <<seriesVars, libVars>>
vars == <<procVars, detVars, apiVars, restVars>>

\* ------------------------------------------------------------------------
\* Program constants
\* ------------------------------------------------------------------------
MAX_WINDOW_SIZE == 8192
AUDIO_SAMPLES_PER_CHUNK == 128
MinChunksForOneWindow == MAX_WINDOW_SIZE \div AUDIO_SAMPLES_PER_CHUNK
MIN_CHUNKS_FOR_ANALYSIS == (MAX_WINDOW_SIZE * 2) \div AUDIO_SAMPLES_PER_CHUNK
\* fields chunk_size and max_stored_chunks, set once by new()
chunk_size == AUDIO_SAMPLES_PER_CHUNK
max_stored_chunks == MIN_CHUNKS_FOR_ANALYSIS

\* ------------------------------------------------------------------------
\* Bounds of the model
\* ------------------------------------------------------------------------
\* chunks pushed in one run of the processor (two rings' worth and a little)
MaxPushes == 260
\* detector calls in one run
MaxCalls == 4
\* detector calls in one run of the WINDOW = 2048 scenario of the tests
MaxScenarioCalls == 3
\* view starts offered to set_audio_samples, in units of StartUnit
MaxStart == 3
\* view lengths offered beyond one window, in units of StartUnit
MaxExtra == 2
\* window sizes offered to construction on each side of MAX_WINDOW_SIZE
MaxWindowSpread == 12
\* events accepted by one series (more than its capacity)
MaxEvents == 104
\* leading events of a series whose distance to the previous one varies
MaxVariedEvents == 3
\* chunks accepted by one lib.rs processor (more than its capacity)
MaxLibChunks == 20
\* leading chunks of which a longer variant is offered too
MaxLongChunks == 2

Min(a, b) == IF a < b THEN a ELSE b
Max(a, b) == IF a > b THEN a ELSE b
Reverse(s) == [i \in 1..Len(s) |-> s[Len(s) + 1 - i]]

\* ------------------------------------------------------------------------
\* CircularQueue as the processor uses it
\* ------------------------------------------------------------------------
\* push: appends, overwriting the oldest element once at capacity
CQPushNoEvict(q, cap, x) == IF Len(q) < cap THEN Append(q, x) ELSE q
CQPush(q, cap, x) == IF Len(q) < cap THEN Append(q, x) ELSE Append(Tail(q), x)
\* iter(): from the most recently pushed element to the oldest
CQIter(q) == Reverse(q)

\* flat_map(|vec| vec.iter()).collect() over a sequence of chunks: the
\* chunks' samples one chunk after the other (joined by halves, which keeps
\* the evaluation shallow)
RECURSIVE FlatMapRange(_, _, _)
FlatMapRange(chunks, lo, hi) ==
  IF lo > hi THEN <<>>
  ELSE IF lo = hi THEN chunks[lo]
  ELSE LET mid == (lo + hi) \div 2
       IN FlatMapRange(chunks, lo, mid) \o FlatMapRange(chunks, mid + 1, hi)
FlatMap(chunks) == FlatMapRange(chunks, 1, Len(chunks))

\* get_latest_samples(): iter().rev().flat_map(..).cloned().collect()
GetLatestSamplesNewestFirst == FlatMap(CQIter(recent_audio_sample_f32s))
get_latest_samples == FlatMap(Reverse(CQIter(recent_audio_sample_f32s)))

\* get_time_of_first_sample()
get_time_of_first_sample ==
  time_of_last_added_sample - Len(recent_audio_sample_f32s) * chunk_size

\* has_sufficient_samples()
has_sufficient_samples == Len(recent_audio_sample_f32s) >= max_stored_chunks

\* The chunk the audio source delivers next: each sample carries its absolute
\* position in the stream, so that order and identity are observable.
StreamChunk(len) == [j \in 1..len |-> pushed_chunks * chunk_size + j - 1]
\* chunk lengths a caller may wrongly send
WrongSizes == {0, chunk_size - 1, chunk_size + 1}

\* add_samples_chunk(sample_f32s)
AddSamplesChunkRejectsShort(sample_f32s) ==
  IF Len(sample_f32s) < chunk_size
    THEN /\ add_result' = "size_mismatch"
         /\ UNCHANGED <<time_of_last_added_sample, recent_audio_sample_f32s,
                        pushed_chunks>>
    ELSE /\ time_of_last_added_sample' = time_of_last_added_sample + chunk_size
         /\ recent_audio_sample_f32s' =
              CQPush(recent_audio_sample_f32s, max_stored_chunks, sample_f32s)
         /\ add_result' = "ok"
         /\ pushed_chunks' = pushed_chunks + 1
AddSamplesChunkCountsFirst(sample_f32s) ==
  /\ time_of_last_added_sample' = time_of_last_added_sample + chunk_size
  /\ IF Len(sample_f32s) # chunk_size
       THEN /\ add_result' = "size_mismatch"
            /\ UNCHANGED <<recent_audio_sample_f32s, pushed_chunks>>
       ELSE /\ recent_audio_sample_f32s' =
                 CQPush(recent_audio_sample_f32s, max_stored_chunks, sample_f32s)
            /\ add_result' = "ok"
            /\ pushed_chunks' = pushed_chunks + 1
AddSamplesChunk(sample_f32s) ==
  IF Len(sample_f32s) # chunk_size
    THEN /\ add_result' = "size_mismatch"
         /\ UNCHANGED <<time_of_last_added_sample, recent_audio_sample_f32s,
                        pushed_chunks>>
    ELSE /\ time_of_last_added_sample' = time_of_last_added_sample + chunk_size
         /\ recent_audio_sample_f32s' =
              CQPush(recent_audio_sample_f32s, max_stored_chunks, sample_f32s)
         /\ add_result' = "ok"
         /\ pushed_chunks' = pushed_chunks + 1

\* ------------------------------------------------------------------------
\* PitchDetector
\* ------------------------------------------------------------------------
\* window sizes of the repository's tests: make_params(2), make_params(4)
\* and WINDOW = 2048; Windows are the small ones, explored exhaustively
WINDOW == 2048
SAMPLE_RATE == 48000
Windows == {2, 4, 8}
\* sin_signal_samples(freq, 0.1): (SAMPLE_RATE as f32 * 0.1) as usize samples
SinSignalLen == SAMPLE_RATE \div 10

None == [some |-> FALSE]
Some(v) == [some |-> TRUE, value |-> v]

\* What detector.get_pitch (the pitch_detection crate) may return for a
\* window: no pitch, or a pitch with a frequency and a clarity (in percent).
EstimatorPitches == {[frequency |-> 220, clarity |-> 89]}
EstimatorOutcomes == {None} \cup {Some(p) : p \in EstimatorPitches}

\* fill_chunk(signal, start, window, output): the number of samples copied
\* from the signal (the rest of the output is zeroed)
FillChunkCopied(signal, start, win) ==
  LET start1 == IF Len(signal) > start THEN start ELSE Len(signal)
      stop == IF Len(signal) >= start1 + win THEN start1 + win ELSE Len(signal)
  IN stop - start1
\* fill_chunk: the first `win` entries of the output, which the estimator reads
FillChunk(signal, start, win) ==
  LET start1 == IF Len(signal) > start THEN start ELSE Len(signal)
      copied == FillChunkCopied(signal, start, win)
  IN [i \in 1..win |-> IF i <= copied THEN signal[start1 + i] ELSE 0]

\* index_of_next_unprocessed_sample()
index_of_next_unprocessed_sample ==
  time_of_next_unprocessed_sample - time_of_first_sample
\* num_audio_samples()
num_audio_samples == Len(audio_samples)

\* the fields of the detector as a call finds them
Fields == [time_of_first_sample |-> time_of_first_sample,
           time_of_next_unprocessed_sample |-> time_of_next_unprocessed_sample,
           current_pitch |-> current_pitch,
           num_audio_samples |-> num_audio_samples,
           last_window |-> last_window]
EmittedSoFar == emitted_t \cup {pitches[k].t : k \in 1..Len(pitches)}
Record(op, result) ==
  /\ calls' = Append(calls, [op |-> op, result |-> result])
  /\ before' = Fields
  /\ emitted_t' = EmittedSoFar

\* set_audio_samples(time_of_first_sample, audio_samples)
SetAudioSamplesRewinds(t, samples) ==
  IF Len(samples) < window
    THEN /\ Record("set_audio_samples", "insufficient_samples")
         /\ pitches' = <<>> /\ analysed' = <<>>
         /\ UNCHANGED <<window, time_of_first_sample,
                        time_of_next_unprocessed_sample, current_pitch,
                        audio_samples, last_window>>
    ELSE /\ time_of_first_sample' = t
         /\ time_of_next_unprocessed_sample' = t
         /\ audio_samples' = samples
         /\ Record("set_audio_samples", "ok")
         /\ pitches' = <<>> /\ analysed' = <<>>
         /\ UNCHANGED <<window, current_pitch, last_window>>
SetAudioSamplesStoresFirst(t, samples) ==
  IF Len(samples) < window
    THEN /\ time_of_first_sample' = t
         /\ Record("set_audio_samples", "insufficient_samples")
         /\ pitches' = <<>> /\ analysed' = <<>>
         /\ UNCHANGED <<window, time_of_next_unprocessed_sample, current_pitch,
                        audio_samples, last_window>>
    ELSE /\ time_of_first_sample' = t
         /\ time_of_next_unprocessed_sample' =
              IF t > time_of_next_unprocessed_sample
                THEN t ELSE time_of_next_unprocessed_sample
         /\ audio_samples' = samples
         /\ Record("set_audio_samples", "ok")
         /\ pitches' = <<>> /\ analysed' = <<>>
         /\ UNCHANGED <<window, current_pitch, last_window>>
SetAudioSamplesKeepsCursor(t, samples) ==
  IF Len(samples) < window
    THEN /\ Record("set_audio_samples", "insufficient_samples")
         /\ pitches' = <<>> /\ analysed' = <<>>
         /\ UNCHANGED <<window, time_of_first_sample,
                        time_of_next_unprocessed_sample, current_pitch,
                        audio_samples, last_window>>
    ELSE /\ time_of_first_sample' = t
         /\ audio_samples' = samples
         /\ Record("set_audio_samples", "ok")
         /\ pitches' = <<>> /\ analysed' = <<>>
         /\ UNCHANGED <<window, time_of_next_unprocessed_sample,
                        current_pitch, last_window>>
SetAudioSamples(t, samples) ==
  IF Len(samples) < window
    THEN /\ Record("set_audio_samples", "insufficient_samples")
         /\ pitches' = <<>> /\ analysed' = <<>>
         /\ UNCHANGED <<window, time_of_first_sample,
                        time_of_next_unprocessed_sample, current_pitch,
                        audio_samples, last_window>>
    ELSE /\ time_of_first_sample' = t
         /\ time_of_next_unprocessed_sample' =
              IF t > time_of_next_unprocessed_sample
                THEN t ELSE time_of_next_unprocessed_sample
         /\ audio_samples' = samples
         /\ Record("set_audio_samples", "ok")
         /\ pitches' = <<>> /\ analysed' = <<>>
         /\ UNCHANGED <<window, current_pitch, last_window>>

\* Pitch.t as pitches_vec computes it: the cursor, already advanced past the
\* window, plus the window's index into the view
PitchTWindowStart(cursor, index) == time_of_first_sample + index
PitchTOfBatch(cursor, index) == time_of_next_unprocessed_sample
PitchT(cursor, index) == cursor + index

\* onset: current_pitch is None
OnsetAlways(cp) == TRUE
Onset(cp) == ~cp.some

\* the window/4 hop of pitches_vec
DeltaHalf(window_samples) == window_samples \div 2
Delta(window_samples) == window_samples \div 4

\* self.time_of_next_unprocessed_sample += delta, once per window
CursorAfterStuck(cursor, delta) == cursor
CursorAfter(cursor, delta) == cursor + delta

\* the number of windows pitches_vec analyses
NumWindowsInclusive(num_unprocessed_samples, window_samples, delta) ==
  (num_unprocessed_samples - window_samples) \div delta + 1
NumWindowsToEnd(num_unprocessed_samples, window_samples, delta) ==
  num_unprocessed_samples \div delta
NumWindows(num_unprocessed_samples, window_samples, delta) ==
  (num_unprocessed_samples - window_samples) \div delta

\* One pass of the for loop of pitches_vec, for window i, with the estimator
\* returning outs[i + 1]; st carries the fields and the results so far.
LoopBodyAdvancesOnPitch(i, delta, index0, optional_pitch, st) ==
  LET index == i * delta + index0
      cursor == CursorAfter(st.time_of_next_unprocessed_sample, delta)
      seen == [index |-> index,
               start |-> time_of_first_sample + index,
               copied |-> FillChunkCopied(audio_samples, index, window),
               confident |-> optional_pitch.some]
  IN IF optional_pitch.some
       THEN [time_of_next_unprocessed_sample |-> cursor,
             current_pitch |-> Some(optional_pitch.value.frequency),
             pitches |-> Append(st.pitches,
                                [clarity |-> optional_pitch.value.clarity,
                                 frequency |-> optional_pitch.value.frequency,
                                 t |-> PitchT(cursor, index),
                                 onset |-> Onset(st.current_pitch)]),
             analysed |-> Append(st.analysed, seen)]
       ELSE [time_of_next_unprocessed_sample |->
               st.time_of_next_unprocessed_sample,
             current_pitch |-> None,
             pitches |-> st.pitches,
             analysed |-> Append(st.analysed, seen)]
LoopBody(i, delta, index0, optional_pitch, st) ==
  LET index == i * delta + index0
      cursor == CursorAfter(st.time_of_next_unprocessed_sample, delta)
      seen == [index |-> index,
               start |-> time_of_first_sample + index,
               copied |-> FillChunkCopied(audio_samples, index, window),
               confident |-> optional_pitch.some]
  IN IF optional_pitch.some
       THEN [time_of_next_unprocessed_sample |-> cursor,
             current_pitch |-> Some(optional_pitch.value.frequency),
             pitches |-> Append(st.pitches,
                                [clarity |-> optional_pitch.value.clarity,
                                 frequency |-> optional_pitch.value.frequency,
                                 t |-> PitchT(cursor, index),
                                 onset |-> Onset(st.current_pitch)]),
             analysed |-> Append(st.analysed, seen)]
       ELSE [time_of_next_unprocessed_sample |-> cursor,
             current_pitch |-> None,
             pitches |-> st.pitches,
             analysed |-> Append(st.analysed, seen)]

\* the for loop over the windows i .. num_windows - 1, in order; run by
\* halves, the first half being worked out before the second is entered,
\* which keeps the nesting shallow for a hundred windows
RECURSIVE Loop(_, _, _, _, _, _)
Loop(i, num_windows, delta, index0, outs, st) ==
  IF i >= num_windows
    THEN st
    ELSE IF num_windows = i + 1
      THEN LoopBody(i, delta, index0, outs[i + 1], st)
      ELSE LET mid == (i + num_windows) \div 2
               first_half == Loop(i, mid, delta, index0, outs, st)
           IN IF Len(first_half.analysed) >= 0
                THEN Loop(mid, num_windows, delta, index0, outs, first_half)
                ELSE first_half

\* pitches_vec returns without touching the fields
ReturnsEmpty ==
  /\ Record("pitches_vec", "ok")
  /\ pitches' = <<>> /\ analysed' = <<>>
  /\ UNCHANGED <<window, time_of_first_sample, time_of_next_unprocessed_sample,
                 current_pitch, audio_samples, last_window>>
\* pitches_vec panics before touching the fields
Panics(why) ==
  /\ Record("pitches_vec", why)
  /\ pitches' = <<>> /\ analysed' = <<>>
  /\ UNCHANGED <<window, time_of_first_sample, time_of_next_unprocessed_sample,
                 current_pitch, audio_samples, last_window>>

\* The answers detector.get_pitch may give for the windows of one drain. In
\* the per-chunk loop the answer is a function of the window's samples, that
\* is of where in the stream the window starts: every third window has no
\* confident pitch.
StreamEstimate(start) ==
  IF (start \div Delta(window)) % 3 = 2
    THEN None
    ELSE Some(CHOOSE p \in EstimatorPitches : TRUE)
EstimatorAnswers(num_windows) ==
  IF stream_pc = "drain"
    THEN {[i \in 1..num_windows |->
             StreamEstimate(time_of_next_unprocessed_sample
                              + (i - 1) * Delta(window))]}
    ELSE [1..num_windows -> EstimatorOutcomes]

\* pitches_vec()
PitchesVec ==
  IF Len(audio_samples) < window THEN ReturnsEmpty
  ELSE IF time_of_next_unprocessed_sample < time_of_first_sample
         \/ Len(audio_samples) < index_of_next_unprocessed_sample
    THEN Panics("subtract_with_overflow")
  ELSE LET num_unprocessed_samples ==
             Len(audio_samples) - index_of_next_unprocessed_sample
           window_samples == window
           delta == Delta(window_samples)
       IN IF num_unprocessed_samples < window_samples THEN ReturnsEmpty
          ELSE IF delta = 0 THEN Panics("divide_by_zero")
          ELSE LET num_windows ==
                     NumWindows(num_unprocessed_samples, window_samples, delta)
               IN IF num_windows = 0 THEN ReturnsEmpty
                  ELSE \E outs \in EstimatorAnswers(num_windows) :
                    LET st == Loop(0, num_windows, delta,
                                   index_of_next_unprocessed_sample, outs,
                                   [time_of_next_unprocessed_sample |->
                                      time_of_next_unprocessed_sample,
                                    current_pitch |-> current_pitch,
                                    pitches |-> <<>>,
                                    analysed |-> <<>>])
                    IN /\ time_of_next_unprocessed_sample' =
                            st.time_of_next_unprocessed_sample
                       /\ current_pitch' = st.current_pitch
                       /\ pitches' = st.pitches
                       /\ analysed' = st.analysed
                       /\ last_window' =
                            Some(st.analysed[Len(st.analysed)])
                       /\ Record("pitches_vec", "ok")
                       /\ UNCHANGED <<window, time_of_first_sample,
                                      audio_samples>>

\* ------------------------------------------------------------------------
\* Specifications
\* ------------------------------------------------------------------------
\* AudioSamplesProcessor::new()
InitProcessor ==
  /\ time_of_last_added_sample = 0
  /\ recent_audio_sample_f32s = <<>>
  /\ add_result = "none"
  /\ pushed_chunks = 0

\* PitchDetector::new(detector_type, make_params(w))
InitDetector(w) ==
  /\ window = w
  /\ time_of_first_sample = 0
  /\ time_of_next_unprocessed_sample = 0
  /\ current_pitch = None
  /\ audio_samples = <<>>
  /\ pitches = <<>>
  /\ analysed = <<>>
  /\ calls = <<>>
  /\ last_window = None
  /\ emitted_t = {}
  /\ before = Fields

\* no pitches() call and no construction attempt observed yet
InitApi ==
  /\ pitches_result = [at |-> 0, returned |-> FALSE, code |-> "",
                       message |-> <<>>, pitches |-> <<>>]
  /\ new_result = [attempted |-> FALSE]
  /\ ingest_arg = None
  /\ stream_pc = "push"

\* The views a caller hands to set_audio_samples. For the small windows:
\* starts and lengths on a grid of half a hop (at least one sample), the
\* cursor itself as a start, and too-short views. For WINDOW: the views of
\* the repository's tests, which start at 0 or at the cursor and hold the
\* 100 ms signal or nothing.
StartUnit(w) == Max(1, w \div 8)
ViewStarts ==
  IF window = WINDOW
    THEN {0, time_of_next_unprocessed_sample}
    ELSE {k * StartUnit(window) : k \in 0..MaxStart}
           \cup {time_of_next_unprocessed_sample}
ViewLens ==
  IF window = WINDOW
    THEN {0, SinSignalLen}
    ELSE {window + k * StartUnit(window) : k \in 0..MaxExtra}
           \cup {0, window - 1}
\* the view's samples carry their absolute position in the stream
View(t, n) == [i \in 1..n |-> t + i - 1]

CallBound == IF window = WINDOW THEN MaxScenarioCalls ELSE MaxCalls

Ingest ==
  /\ Len(calls) < CallBound
  /\ \E t \in ViewStarts, n \in ViewLens :
       /\ SetAudioSamples(t, View(t, n))
       /\ ingest_arg' = Some([time_of_first_sample |-> t, len |-> n])
  /\ UNCHANGED <<procVars, pitches_result, new_result, stream_pc,
                 restVars>>

Drain ==
  /\ Len(calls) < CallBound
  /\ PitchesVec
  /\ ingest_arg' = None
  /\ UNCHANGED <<procVars, pitches_result, new_result, stream_pc,
                 restVars>>

\* Series::new(name)
InitSeries ==
  /\ events = <<>>
  /\ added = <<>>
  /\ series_call = [op |-> "new"]

\* lib.rs AudioSamplesProcessor::new(); create_analyzer not called yet
InitLib ==
  /\ recent_audio_samples = <<>>
  /\ lib_accepted = 0
  /\ lib_add_result = "none"
  /\ analyzer = [called |-> FALSE, accepted |-> 0, returned |-> None]

InitRest == InitSeries /\ InitLib

Init ==
  InitProcessor /\ InitApi /\ InitRest /\ \E w \in Windows : InitDetector(w)
Next == Ingest \/ Drain
Spec == Init /\ [][Next]_vars

\* The processor alone: chunks of the right and of a wrong size are pushed.
Push ==
  /\ pushed_chunks < MaxPushes
  /\ AddSamplesChunk(StreamChunk(chunk_size))
  /\ UNCHANGED <<detVars, apiVars,
                 restVars>>

PushWrongSize ==
  /\ pushed_chunks < MaxPushes
  /\ \E n \in WrongSizes : AddSamplesChunk(StreamChunk(n))
  /\ UNCHANGED <<detVars, apiVars,
                 restVars>>

InitBuffer == InitProcessor /\ InitApi /\ InitRest /\ InitDetector(WINDOW)
NextBuffer == Push \/ PushWrongSize
SpecBuffer == InitBuffer /\ [][NextBuffer]_vars

\* PitchesResult::from_error(code, message): the message names the samples
\* required and the samples there are
FromError(code, required, available) ==
  [_code |-> code, _message |-> <<required, available>>, _pitches |-> <<>>]
\* PitchesResult::from_vec(pitches)
FromVec(ps) == [_code |-> "success", _message |-> <<>>, _pitches |-> ps]

\* pitches(): the result it returns, noted with the number of the call; when
\* pitches_vec panics inside it, nothing is returned
Returned(r) ==
  [at |-> Len(calls) + 1, returned |-> TRUE, code |-> r._code,
   message |-> r._message, pitches |-> r._pitches]
PanickedInside ==
  [at |-> Len(calls) + 1, returned |-> FALSE, code |-> "",
   message |-> <<>>, pitches |-> <<>>]
Pitches ==
  IF Len(audio_samples) < window
    THEN /\ pitches_result' =
              Returned(FromError("not_enough_samples", window,
                                 Len(audio_samples)))
         /\ Record("pitches", "not_enough_samples")
         /\ pitches' = <<>> /\ analysed' = <<>>
         /\ UNCHANGED <<window, time_of_first_sample,
                        time_of_next_unprocessed_sample, current_pitch,
                        audio_samples, last_window>>
    ELSE /\ PitchesVec
         /\ pitches_result' =
              IF calls'[Len(calls')].result = "ok"
                THEN Returned(FromVec(pitches')) ELSE PanickedInside

\* The detector through its public calls: set_audio_samples and pitches().
Poll ==
  /\ Len(calls) < CallBound
  /\ Pitches
  /\ ingest_arg' = None
  /\ UNCHANGED <<procVars, new_result, stream_pc,
                 restVars>>

NextApi == Ingest \/ Poll
SpecApi == Init /\ [][NextApi]_vars

\* make_params(window); the two thresholds are not read by construction
make_params(w) ==
  [window |-> w, sample_rate |-> SAMPLE_RATE, padding |-> w \div 2]

\* make_detector(detector_type, params): the estimator built for the key, or
\* the panic on any other key
DetectorTypes == {"Autocorrelation", "McLeod", "Smoothed McLeod"}
MakeDetectorDefaults(detector_type, params) ==
  IF detector_type \in DetectorTypes \ {"McLeod"}
    THEN [built |-> TRUE,
          detector |-> [kind |-> detector_type,
                        size |-> params.window,
                        padding |-> params.padding]]
    ELSE [built |-> TRUE,
          detector |-> [kind |-> "McLeod",
                        size |-> params.window,
                        padding |-> params.padding]]
make_detector(detector_type, params) ==
  IF detector_type \in DetectorTypes
    THEN [built |-> TRUE,
          detector |-> [kind |-> detector_type,
                        size |-> params.window,
                        padding |-> params.padding]]
    ELSE [built |-> FALSE, panic |-> "unsupported detector type"]

\* PitchDetector::new(detector_type, params): the outcome of the attempt
New(detector_type, params) ==
  IF params.window > MAX_WINDOW_SIZE
    THEN [attempted |-> TRUE, detector_type |-> detector_type,
          params |-> params, outcome |-> "window size exceeded maximum"]
    ELSE LET d == make_detector(detector_type, params)
         IN IF d.built
              THEN [attempted |-> TRUE, detector_type |-> detector_type,
                    params |-> params, outcome |-> "ok",
                    detector |-> d.detector]
              ELSE [attempted |-> TRUE, detector_type |-> detector_type,
                    params |-> params, outcome |-> d.panic]
\* AudioSamplesProcessor::create_pitch_detector(detector_type, window_samples)
create_pitch_detector(detector_type, window_samples) ==
  New(detector_type, make_params(window_samples))

\* keys and window sizes offered to construction
TypeInputs == DetectorTypes \cup {"", "mcleod", "YIN"}
WindowInputs ==
  Windows \cup {WINDOW}
    \cup ((MAX_WINDOW_SIZE - MaxWindowSpread)..(MAX_WINDOW_SIZE + MaxWindowSpread))

\* the fields of the detector a successful construction returns
Fresh(w) ==
  /\ window' = w
  /\ time_of_first_sample' = 0
  /\ time_of_next_unprocessed_sample' = 0
  /\ current_pitch' = None
  /\ audio_samples' = <<>>
  /\ pitches' = <<>> /\ analysed' = <<>> /\ calls' = <<>>
  /\ last_window' = None /\ emitted_t' = {}
  /\ before' = [time_of_first_sample |-> 0,
                time_of_next_unprocessed_sample |-> 0,
                current_pitch |-> None,
                num_audio_samples |-> 0,
                last_window |-> None]
\* a construction attempt; one that panics returns no detector, and the
\* detector there was stays
Construct ==
  /\ \E detector_type \in TypeInputs, w \in WindowInputs :
       new_result' = New(detector_type, make_params(w))
  /\ IF new_result'.outcome = "ok"
       THEN Fresh(new_result'.params.window) ELSE UNCHANGED detVars
  /\ ingest_arg' = None
  /\ UNCHANGED <<procVars, pitches_result, stream_pc,
                 restVars>>
CreatePitchDetector ==
  /\ \E detector_type \in TypeInputs, w \in WindowInputs :
       new_result' = create_pitch_detector(detector_type, w)
  /\ IF new_result'.outcome = "ok"
       THEN Fresh(new_result'.params.window) ELSE UNCHANGED detVars
  /\ ingest_arg' = None
  /\ UNCHANGED <<procVars, pitches_result, stream_pc,
                 restVars>>

NextNew == Construct \/ CreatePitchDetector
SpecNew == InitBuffer /\ [][NextNew]_vars

\* The processor feeding a detector, chunk by chunk: each chunk is pushed and
\* the snapshot is then handed to the detector.
StreamWindows == {1, 4, WINDOW, MAX_WINDOW_SIZE}
StreamPush ==
  /\ stream_pc = "push"
  /\ pushed_chunks < MaxPushes
  /\ AddSamplesChunk(StreamChunk(chunk_size))
  /\ stream_pc' = "ingest"
  /\ UNCHANGED <<detVars, pitches_result, new_result, ingest_arg,
                 restVars>>

\* set_latest_samples_on(detector)
SetLatestSamplesOn ==
  /\ stream_pc = "ingest"
  /\ SetAudioSamples(get_time_of_first_sample, get_latest_samples)
  /\ ingest_arg' = Some([time_of_first_sample |-> get_time_of_first_sample,
                         len |-> Len(get_latest_samples)])
  /\ stream_pc' = "push"
  /\ UNCHANGED <<procVars, pitches_result, new_result,
                 restVars>>

\* The per-chunk loop: a chunk is pushed and, as soon as the snapshot holds
\* window samples, handed to the detector, which is then drained.
LoopWindows == {4, WINDOW, MAX_WINDOW_SIZE}
LoopPush ==
  /\ stream_pc = "push"
  /\ pushed_chunks < MaxPushes
  /\ AddSamplesChunk(StreamChunk(chunk_size))
  /\ stream_pc' = IF Len(recent_audio_sample_f32s') * chunk_size >= window
                    THEN "ingest" ELSE "push"
  /\ UNCHANGED <<detVars, pitches_result, new_result, ingest_arg,
                 restVars>>
LoopIngest ==
  /\ stream_pc = "ingest"
  /\ SetAudioSamples(get_time_of_first_sample, get_latest_samples)
  /\ ingest_arg' = Some([time_of_first_sample |-> get_time_of_first_sample,
                         len |-> Len(get_latest_samples)])
  /\ stream_pc' = "drain"
  /\ UNCHANGED <<procVars, pitches_result, new_result,
                 restVars>>
LoopDrain ==
  /\ stream_pc = "drain"
  /\ PitchesVec
  /\ ingest_arg' = None
  /\ stream_pc' = "push"
  /\ UNCHANGED <<procVars, pitches_result, new_result,
                 restVars>>

InitLoop ==
  InitProcessor /\ InitApi /\ InitRest
    /\ \E w \in LoopWindows : InitDetector(w)
NextLoop == LoopPush \/ LoopIngest \/ LoopDrain
SpecLoop == InitLoop /\ [][NextLoop]_vars

InitStream ==
  InitProcessor /\ InitApi /\ InitRest
    /\ \E w \in StreamWindows : InitDetector(w)
NextStream == StreamPush \/ SetLatestSamplesOn
SpecStream == InitStream /\ [][NextStream]_vars

\* ------------------------------------------------------------------------
\* Series (timeline.rs)
\* ------------------------------------------------------------------------
DEFAULT_CAPACITY == 100
\* f32 times are whole milliseconds here; NaN stands for the f32 NaN, with
\* which every comparison is false
NaN == -1000
FLessOrEqual(a, b) == a # NaN /\ b # NaN /\ a <= b
FLess(a, b) == a # NaN /\ b # NaN /\ a < b
FGreaterEqual(a, b) == a # NaN /\ b # NaN /\ a >= b

\* EventTime::new(ms)
EventTimeNew(ms) == IF FGreaterEqual(ms, 0) THEN Some([ms |-> ms]) ELSE None

\* time_of_most_recent_event(): the first item of iter(), the newest event
time_of_most_recent_event ==
  IF Len(events) = 0 THEN None
  ELSE Some(CQIter(events)[1].time_from_start_ms)

\* add_pitch_event(time_from_start_ms, pitch_hz): the assert, the expect, the
\* push
AddPitchEvent(time_from_start_ms, pitch_hz) ==
  IF ~(Len(events) = 0
         \/ FLess(time_of_most_recent_event.value.ms, time_from_start_ms))
    THEN /\ series_call' = [op |-> "add_pitch_event",
                            time |-> time_from_start_ms,
                            result |-> "not_chronological"]
         /\ UNCHANGED <<events, added>>
    ELSE IF ~EventTimeNew(time_from_start_ms).some
      THEN /\ series_call' = [op |-> "add_pitch_event",
                              time |-> time_from_start_ms,
                              result |-> "negative_time"]
           /\ UNCHANGED <<events, added>>
      ELSE /\ events' =
                CQPush(events, DEFAULT_CAPACITY,
                       [time_from_start_ms |->
                          EventTimeNew(time_from_start_ms).value,
                        pitch_hz |-> pitch_hz])
           /\ added' =
                Append(added,
                       [time_from_start_ms |->
                          EventTimeNew(time_from_start_ms).value,
                        pitch_hz |-> pitch_hz])
           /\ series_call' = [op |-> "add_pitch_event",
                              time |-> time_from_start_ms,
                              result |-> "ok"]

\* events_after(after_ms): iter().filter(..).rev().cloned().collect()
EventsAfterNewestFirst(after_ms) ==
  LET Keep(e) == FGreaterEqual(e.time_from_start_ms.ms, after_ms)
  IN SelectSeq(CQIter(events), Keep)
events_after(after_ms) ==
  LET Keep(e) == FGreaterEqual(e.time_from_start_ms.ms, after_ms)
  IN Reverse(SelectSeq(CQIter(events), Keep))

\* times offered to add_pitch_event: later than the newest event, equal to
\* it, earlier, negative and NaN
AddTimes ==
  IF Len(events) = 0 THEN {0, 1, -1, NaN}
  ELSE LET newest == time_of_most_recent_event.value.ms
       IN {newest + 2, newest, newest - 1, -1, NaN}
            \cup (IF Len(added) < MaxVariedEvents THEN {newest + 1} ELSE {})
\* times offered to events_after: around the oldest and the newest retained
\* event and between them
AfterTimes ==
  IF Len(events) = 0 THEN {0, -1, NaN}
  ELSE LET newest == events[Len(events)].time_from_start_ms.ms
           oldest == events[1].time_from_start_ms.ms
       IN {0, -1, NaN, oldest - 1, oldest, oldest + 1, newest, newest + 1,
           (oldest + newest) \div 2, (oldest + newest) \div 2 + 1}

AddEvent ==
  /\ Len(added) < MaxEvents
  /\ \E t \in AddTimes : AddPitchEvent(t, 440)
  /\ UNCHANGED <<procVars, detVars, apiVars, libVars>>
EventsAfter ==
  /\ \E x \in AfterTimes :
       series_call' = [op |-> "events_after", after_ms |-> x,
                       result |-> events_after(x)]
  /\ UNCHANGED <<events, added>>
  /\ UNCHANGED <<procVars, detVars, apiVars, libVars>>

NextSeries == AddEvent \/ EventsAfter
SpecSeries == InitBuffer /\ [][NextSeries]_vars

\* ------------------------------------------------------------------------
\* AudioSamplesProcessor and MusicAnalyzer of lib.rs
\* ------------------------------------------------------------------------
MAX_CHUNKS == 16
EXPECTED_SAMPLES_PER_CHUNK == 128
LIB_MIN_CHUNKS_FOR_ANALYSIS == 8
\* f32 samples are counted in thousandths: 1000 is 1.0
Milli == 1000

\* x as i16: truncated toward zero and saturated
CastI16(x) ==
  LET whole == IF x >= 0 THEN x \div Milli ELSE -((-x) \div Milli)
  IN Max(Min(whole, 32767), -32768)
\* 32767 * (x as i16) leaves the i16 range: the multiplication panics
MultiplyOverflows(x) == 32767 * CastI16(x) \notin -32768..32767
\* audio_float_to_signed16(x): the cast comes before the multiplication
audio_float_to_signed16(x) == Max(Min(32767 * CastI16(x), 32767), -32767)

\* MusicAnalyzer::new(recent_audio_samples)
MusicAnalyzerNew(samples) == [audio_samples |-> samples]

\* lib.rs has_sufficient_samples()
LibHasSufficientSamplesStrict ==
  Len(recent_audio_samples) > LIB_MIN_CHUNKS_FOR_ANALYSIS
lib_has_sufficient_samples ==
  Len(recent_audio_samples) >= LIB_MIN_CHUNKS_FOR_ANALYSIS

\* create_analyzer(): iter() runs from the newest chunk to the oldest
create_analyzer ==
  IF lib_has_sufficient_samples
    THEN Some(MusicAnalyzerNew(FlatMap(CQIter(recent_audio_samples))))
    ELSE None

\* add_samples(sample_f32s)
AddSamples(sample_f32s) ==
  IF Len(sample_f32s) < EXPECTED_SAMPLES_PER_CHUNK
    THEN /\ lib_add_result' = "too_few_samples"
         /\ UNCHANGED <<recent_audio_samples, lib_accepted>>
    ELSE IF \E j \in 1..Len(sample_f32s) : MultiplyOverflows(sample_f32s[j])
      THEN /\ lib_add_result' = "multiply_with_overflow"
           /\ UNCHANGED <<recent_audio_samples, lib_accepted>>
      ELSE /\ recent_audio_samples' =
                CQPush(recent_audio_samples, MAX_CHUNKS,
                       [j \in 1..Len(sample_f32s) |->
                          audio_float_to_signed16(sample_f32s[j])])
           /\ lib_accepted' = lib_accepted + 1
           /\ lib_add_result' = "ok"

\* The chunk the audio source delivers next: half-scale samples, and one
\* full-scale sample whose place and sign tell the chunks apart.
LibChunk(len, peak) ==
  [j \in 1..len |->
     IF j = (lib_accepted % EXPECTED_SAMPLES_PER_CHUNK) + 1
       THEN (IF lib_accepted % 2 = 0 THEN peak ELSE -peak)
       ELSE (IF j % 2 = 0 THEN Milli \div 2 ELSE -(Milli \div 4))]
\* chunk lengths offered: too short, expected, and at first a longer one
LibLens ==
  {0, EXPECTED_SAMPLES_PER_CHUNK - 1, EXPECTED_SAMPLES_PER_CHUNK}
    \cup (IF lib_accepted < MaxLongChunks
            THEN {EXPECTED_SAMPLES_PER_CHUNK + 1} ELSE {})
\* the full-scale sample: 1.0, or 2.0 which the conversion cannot hold
LibPeaks == {Milli, 2 * Milli}

LibAddSamples ==
  /\ lib_accepted < MaxLibChunks
  /\ \E len \in LibLens, peak \in LibPeaks : AddSamples(LibChunk(len, peak))
  /\ UNCHANGED analyzer
  /\ UNCHANGED <<procVars, detVars, apiVars, seriesVars>>
CreateAnalyzer ==
  /\ analyzer' = [called |-> TRUE, accepted |-> lib_accepted,
                  returned |-> create_analyzer]
  /\ UNCHANGED <<recent_audio_samples, lib_accepted, lib_add_result>>
  /\ UNCHANGED <<procVars, detVars, apiVars, seriesVars>>

NextLib == LibAddSamples \/ CreateAnalyzer
SpecLib == InitBuffer /\ [][NextLib]_vars

\* The scenario of the repository's tests: one detector with WINDOW = 2048.
InitScenario ==
  InitProcessor /\ InitApi /\ InitRest /\ InitDetector(WINDOW)
SpecScenario == InitScenario /\ [][Next]_vars

\* ------------------------------------------------------------------------
\* Properties of the sample ring (checked under SpecBuffer)
\* ------------------------------------------------------------------------
TotalPushed == pushed_chunks * chunk_size
Capacity == max_stored_chunks * chunk_size

\* C1: after any sequence of 128-sample pushes, get_latest_samples() is the
\* last min(total pushed, 128 x 128) samples in push order, oldest first,
\* also after the ring has wrapped around.
C1_SnapshotIsLastSamples ==
  LET n == Min(TotalPushed, Capacity)
  IN get_latest_samples = [i \in 1..n |-> TotalPushed - n + i - 1]
C1_Witness ==
  /\ pushed_chunks > max_stored_chunks + 1
  /\ add_result = "ok"
  /\ Len(get_latest_samples) = Capacity

\* C9: get_time_of_first_sample() is 0 up to and including the push that
\* fills the ring, grows by chunk_size with each later push, and always is
\* the total pushed minus the length of the current view.
C9_TimeOfFirstSample ==
  /\ get_time_of_first_sample =
       IF pushed_chunks <= max_stored_chunks
         THEN 0
         ELSE (pushed_chunks - max_stored_chunks) * chunk_size
  /\ get_time_of_first_sample = TotalPushed - Len(get_latest_samples)
C9_Witness ==
  /\ pushed_chunks = max_stored_chunks + 2
  /\ get_time_of_first_sample = 2 * chunk_size

\* C10: a push of a chunk shorter or longer than chunk_size fails with a size
\* mismatch and leaves the retained chunks and the counter of samples pushed
\* as they were.
C10_WrongSizeRejected ==
  [][PushWrongSize =>
       /\ add_result' = "size_mismatch"
       /\ recent_audio_sample_f32s' = recent_audio_sample_f32s
       /\ time_of_last_added_sample' = time_of_last_added_sample]_vars
C10_Witness ==
  /\ add_result = "size_mismatch"
  /\ pushed_chunks > max_stored_chunks

\* ------------------------------------------------------------------------
\* Properties of the detector (checked under Spec and SpecScenario)
\* ------------------------------------------------------------------------
NumCalls == Len(calls)
LastCall == calls[NumCalls]
Drained == NumCalls > 0 /\ LastCall.op = "pitches_vec"
\* the number of confident windows among the first j the last drain analysed
ConfidentUpTo(j) == Cardinality({m \in 1..j : analysed[m].confident})
\* the window analysed just before the j-th window of the last drain
WindowBefore(j) == IF j > 1 THEN Some(analysed[j - 1]) ELSE before.last_window
\* view_len - (cursor - view_start), in the integers, as the last call found it
UnprocessedLenBefore ==
  before.num_audio_samples
    - (before.time_of_next_unprocessed_sample - before.time_of_first_sample)

\* C2: over the detector's lifetime the absolute start positions of the
\* windows handed to the estimator are strictly increasing, also when a later
\* view overlaps an earlier one.
C2_WindowStartsIncrease ==
  /\ \A j \in 1..Len(analysed) :
       WindowBefore(j).some => WindowBefore(j).value.start < analysed[j].start
C2_Witness ==
  /\ Drained
  /\ analysed # <<>>
  /\ before.last_window.some
  /\ time_of_first_sample <= before.last_window.value.start

\* C3: no Pitch returned by a drain carries the t of a Pitch returned by an
\* earlier drain of the same detector.
C3_NoRepeatedT ==
  \A k \in 1..Len(pitches) : pitches[k].t \notin emitted_t

\* C4: the Pitch of the i-th analysed window (i from 0) has t equal to that
\* window's absolute start, the cursor when the drain began + i x hop_size.
C4_TIsWindowStart ==
  \A j \in 1..Len(analysed) :
    /\ analysed[j].start =
         before.time_of_next_unprocessed_sample + (j - 1) * Delta(window)
    /\ analysed[j].confident =>
         pitches[ConfidentUpTo(j)].t = analysed[j].start

\* C5: a fresh detector with window 2048 that ingests 4800 samples at time 0
\* returns from its first drain, when every window is confident, 5 pitches
\* with t = 512, 1536, 2560, 3584, 4608, the first an onset and the others
\* not; a second drain without a new ingest returns nothing.
ScenarioIngested ==
  /\ window = WINDOW
  /\ time_of_first_sample = 0
  /\ num_audio_samples = SinSignalLen
  /\ NumCalls >= 2
  /\ calls[1] = [op |-> "set_audio_samples", result |-> "ok"]
  /\ calls[2].op = "pitches_vec"
C5_Scenario ==
  /\ (ScenarioIngested /\ NumCalls = 2
        /\ \A j \in 1..Len(analysed) : analysed[j].confident)
       => /\ LastCall.result = "ok"
          /\ [k \in 1..Len(pitches) |-> pitches[k].t] =
               <<512, 1536, 2560, 3584, 4608>>
          /\ [k \in 1..Len(pitches) |-> pitches[k].onset] =
               <<TRUE, FALSE, FALSE, FALSE, FALSE>>
  /\ (ScenarioIngested /\ NumCalls = 3 /\ LastCall.op = "pitches_vec")
       => /\ LastCall.result = "ok"
          /\ pitches = <<>>
C5_Witness ==
  /\ ScenarioIngested /\ NumCalls = 3 /\ LastCall.op = "pitches_vec"
  /\ emitted_t = {512, 1536, 2560, 3584, 4608}

\* C6: with window_size >= 4, a drain that directly follows a drain that
\* returned, with no ingest in between, returns an empty sequence and leaves
\* the cursor, the view's start and current_pitch unchanged.
DrainAfterDrain ==
  /\ NumCalls >= 2
  /\ LastCall.op = "pitches_vec"
  /\ calls[NumCalls - 1] = [op |-> "pitches_vec", result |-> "ok"]
C7_DrainCount ==
  (Drained /\ window >= 4) =>
    IF UnprocessedLenBefore < window
      THEN LastCall.result = "ok" /\ pitches = <<>> /\ analysed = <<>>
      ELSE /\ LastCall.result = "ok"
           /\ Len(analysed) =
                (UnprocessedLenBefore - window) \div Delta(window)
           /\ Len(pitches) = ConfidentUpTo(Len(analysed))

\* C8: a Pitch is an onset exactly when the window analysed just before its
\* own (over the detector's lifetime, across calls) had no confident pitch,
\* or when no window was analysed before it.
C8_OnsetAfterSilence ==
  \A j \in 1..Len(analysed) :
    analysed[j].confident =>
      /\ ConfidentUpTo(j) <= Len(pitches)
      /\ pitches[ConfidentUpTo(j)].onset =
           (~WindowBefore(j).some \/ ~WindowBefore(j).value.confident)
C8_Witness ==
  /\ Drained
  /\ emitted_t # {}
  /\ before.last_window.some /\ ~before.last_window.value.confident
  /\ Len(analysed) >= 2
  /\ analysed[1].confident /\ analysed[2].confident
  /\ pitches[1].onset /\ ~pitches[2].onset

\* ------------------------------------------------------------------------
\* Properties of the public calls (checked under SpecApi)
\* ------------------------------------------------------------------------
EverIngested ==
  \E k \in 1..NumCalls : calls[k] = [op |-> "set_audio_samples", result |-> "ok"]
\* the last call was pitches()
Polled == NumCalls > 0 /\ pitches_result.at = NumCalls

\* C11: pitches() yields the not-enough-samples result (window_size required,
\* 0 available, no pitches) exactly when no ingest has ever succeeded; after a
\* successful ingest every pitches() call yields a success result.
C11_NotEnoughSamplesIffNeverIngested ==
  Polled =>
    IF EverIngested
      THEN pitches_result.returned /\ pitches_result.code = "success"
      ELSE /\ pitches_result.returned
           /\ pitches_result.code = "not_enough_samples"
           /\ pitches_result.message = <<window, 0>>
           /\ pitches_result.pitches = <<>>

\* ------------------------------------------------------------------------
\* Properties of ingest and of the cursor (checked under Spec)
\* ------------------------------------------------------------------------
\* the last call was an ingest; Ingested(r): and its result was r
IngestedAny == NumCalls > 0 /\ ingest_arg.some
Ingested(r) == IngestedAny /\ LastCall.result = r

\* C12: an ingest whose view has fewer than window_size samples fails with the
\* insufficient-samples error and leaves time_of_first_sample,
\* time_of_next_unprocessed_sample, the stored view and current_pitch as they
\* were before the call.
C12_ShortIngestRejectedWhole ==
  [][(ingest_arg'.some /\ ingest_arg'.value.len < window)
       => /\ calls'[Len(calls')] =
               [op |-> "set_audio_samples", result |-> "insufficient_samples"]
          /\ UNCHANGED <<time_of_first_sample, time_of_next_unprocessed_sample,
                         audio_samples, current_pitch>>]_vars
C12_Witness ==
  /\ Ingested("insufficient_samples")
  /\ ingest_arg.value.len < window
  /\ ingest_arg.value.time_of_first_sample # time_of_first_sample
  /\ num_audio_samples >= window
  /\ time_of_next_unprocessed_sample > time_of_first_sample
  /\ current_pitch.some

\* C14: the cursor never rewinds: no call decreases
\* time_of_next_unprocessed_sample, and a successful ingest with view start s
\* leaves it at max(previous cursor, s), also when s is earlier than the
\* previous view's start.
C14_CursorNeverRewinds ==
  /\ time_of_next_unprocessed_sample >= before.time_of_next_unprocessed_sample
  /\ Ingested("ok") =>
       /\ time_of_first_sample = ingest_arg.value.time_of_first_sample
       /\ time_of_next_unprocessed_sample =
            Max(before.time_of_next_unprocessed_sample,
                ingest_arg.value.time_of_first_sample)
C14_Witness ==
  /\ Ingested("ok")
  /\ ingest_arg.value.time_of_first_sample < before.time_of_first_sample
  /\ before.time_of_next_unprocessed_sample > before.time_of_first_sample
  /\ time_of_next_unprocessed_sample = before.time_of_next_unprocessed_sample

\* C15: in every reachable state, after failed calls too,
\* time_of_next_unprocessed_sample >= time_of_first_sample, so
\* index_of_next_unprocessed_sample() never underflows.
C15_CursorNotBeforeView ==
  /\ time_of_next_unprocessed_sample >= time_of_first_sample
  /\ index_of_next_unprocessed_sample >= 0
C15_Witness ==
  /\ Ingested("ok")
  /\ time_of_first_sample > before.time_of_next_unprocessed_sample
  /\ before.time_of_next_unprocessed_sample > 0
  /\ \E k \in 1..NumCalls : calls[k].result \notin {"ok"}

\* C16: within the sequence one drain returns, the Pitch entries are in the
\* order of the windows they come from and their t is strictly increasing.
C16_BatchInWindowOrder ==
  Drained =>
    /\ \A k \in 1..(Len(pitches) - 1) : pitches[k].t < pitches[k + 1].t
    /\ Len(pitches) = ConfidentUpTo(Len(analysed))
    /\ \A j \in 1..Len(analysed) :
         analysed[j].confident =>
           pitches[ConfidentUpTo(j)].t
             - (before.time_of_next_unprocessed_sample + j * Delta(window))
             = analysed[j].index
C16_Witness ==
  /\ Drained
  /\ Len(pitches) >= 2
  /\ \E j \in 2..(Len(analysed) - 1) :
       /\ ~analysed[j].confident
       /\ analysed[j - 1].confident /\ analysed[j + 1].confident

\* ------------------------------------------------------------------------
\* Properties of construction (checked under SpecNew)
\* ------------------------------------------------------------------------
\* C13: construction succeeds exactly when the window is at most 8192 and the
\* key is one of "Autocorrelation", "McLeod", "Smoothed McLeod"; a window above
\* 8192 fails with the window-too-large panic, an unknown key (with a window
\* that passes) with the unsupported-detector-type panic, and a successful
\* construction holds the estimator the key names, never another one.
C13_ConstructionOutcome ==
  new_result.attempted =>
    LET w == new_result.params.window
        key == new_result.detector_type
    IN /\ new_result.outcome = "ok"
            <=> (w <= 8192
                   /\ key \in {"Autocorrelation", "McLeod", "Smoothed McLeod"})
       /\ w > 8192 => new_result.outcome = "window size exceeded maximum"
       /\ (w <= 8192
             /\ key \notin {"Autocorrelation", "McLeod", "Smoothed McLeod"})
            => new_result.outcome = "unsupported detector type"
       /\ new_result.outcome = "ok" =>
            /\ new_result.detector.kind = key
            /\ new_result.detector.size = w
            /\ window = w
            /\ time_of_first_sample = 0
            /\ time_of_next_unprocessed_sample = 0
            /\ num_audio_samples = 0
            /\ ~current_pitch.some
C13_Witness ==
  /\ new_result.attempted
  /\ new_result.outcome = "ok"
  /\ new_result.params.window = 8192
  /\ new_result.detector_type = "Smoothed McLeod"
C13_FailureWitness ==
  /\ new_result.attempted
  /\ new_result.outcome = "unsupported detector type"
  /\ new_result.params.window = 8192

\* ------------------------------------------------------------------------
\* Properties of the processor feeding a detector (checked under SpecStream)
\* ------------------------------------------------------------------------
\* C17: once has_sufficient_samples() is true it stays true after every later
\* push, the snapshot then always holds 16384 = 2 x MAX_WINDOW_SIZE samples,
\* and set_latest_samples_on then succeeds for every window a detector can be
\* constructed with, never raising the insufficient-samples error.
C17_FullBufferFeedsEveryDetector ==
  /\ [](has_sufficient_samples
          => /\ Len(recent_audio_sample_f32s) = 128
             /\ Len(get_latest_samples) = 16384
             /\ 16384 = 2 * MAX_WINDOW_SIZE
             /\ window <= MAX_WINDOW_SIZE)
  /\ [][has_sufficient_samples => has_sufficient_samples']_vars
  /\ [][(has_sufficient_samples /\ stream_pc = "ingest")
          => /\ calls'[Len(calls')] =
                  [op |-> "set_audio_samples", result |-> "ok"]
             /\ audio_samples' = get_latest_samples
             /\ time_of_first_sample' = get_time_of_first_sample]_vars
C17_Witness ==
  /\ window = MAX_WINDOW_SIZE
  /\ pushed_chunks > max_stored_chunks
  /\ has_sufficient_samples
  /\ Ingested("ok")
  /\ time_of_first_sample > 0
  /\ num_audio_samples = 2 * MAX_WINDOW_SIZE

\* ------------------------------------------------------------------------
\* Properties of Series (checked under SpecSeries)
\* ------------------------------------------------------------------------
\* the time of the k-th retained event, oldest first
EventMs(k) == events[k].time_from_start_ms.ms
\* the last n items of a sequence
LastN(seq, n) == SubSeq(seq, Max(1, Len(seq) - n + 1), Len(seq))
\* a time add_pitch_event must refuse: negative, NaN, or not after the newest
Refused(t) ==
  \/ t = NaN
  \/ t < 0
  \/ Len(events) > 0 /\ t <= EventMs(Len(events))

\* C18: the retained events have non-negative, strictly increasing times in
\* the order they were added; an add_pitch_event whose time is negative or
\* not strictly greater than the most recently added event's time fails and
\* leaves the series unchanged.
C18_SeriesChronological ==
  /\ [](/\ \A k \in 1..Len(events) : EventMs(k) # NaN /\ EventMs(k) >= 0
        /\ \A k \in 1..(Len(events) - 1) : EventMs(k) < EventMs(k + 1)
        /\ events = LastN(added, Len(events)))
  /\ [][(series_call'.op = "add_pitch_event" /\ Refused(series_call'.time))
          => /\ series_call'.result # "ok"
             /\ UNCHANGED <<events, added>>]_vars
C18_Witness ==
  /\ Len(added) > 100
  /\ series_call.op = "add_pitch_event"
  /\ series_call.result = "not_chronological"
  /\ series_call.time = EventMs(Len(events))

\* C19: events_after(x) returns exactly the events, among the 100 most
\* recently added, whose time is >= x, oldest first, and leaves the series as
\* it was.
C19_EventsAfter ==
  /\ [](series_call.op = "events_after" =>
          LET x == series_call.after_ms
              AtOrAfter(e) == x # NaN /\ e.time_from_start_ms.ms >= x
          IN /\ series_call.result = SelectSeq(LastN(added, 100), AtOrAfter)
             /\ \A k \in 1..(Len(series_call.result) - 1) :
                  series_call.result[k].time_from_start_ms.ms
                    < series_call.result[k + 1].time_from_start_ms.ms)
  /\ [][series_call'.op = "events_after" => UNCHANGED <<events, added>>]_vars
C19_Witness ==
  /\ series_call.op = "events_after"
  /\ Len(added) > 100
  /\ Len(series_call.result) > 1
  /\ Len(series_call.result) < Len(events)
  /\ series_call.after_ms > added[1].time_from_start_ms.ms

\* ------------------------------------------------------------------------
\* Properties of the lib.rs processor (checked under SpecLib)
\* ------------------------------------------------------------------------
\* C20: create_analyzer() returns None while add_samples has accepted fewer
\* than 8 chunks and Some once it has accepted 8 or more; once it has
\* returned Some, it returns Some after every further add_samples.
C20_AnalyzerOnceEnoughChunks ==
  /\ [](analyzer.called =>
          /\ analyzer.accepted < 8 => ~analyzer.returned.some
          /\ analyzer.accepted >= 8 => analyzer.returned.some)
  /\ [][(analyzer.called /\ analyzer.returned.some)
          => (analyzer'.called /\ analyzer'.returned.some)]_vars
C20_Witness ==
  /\ analyzer.called
  /\ analyzer.returned.some
  /\ analyzer.accepted = lib_accepted
  /\ lib_accepted > 16
  /\ lib_add_result # "ok"
C20_NoneWitness ==
  /\ analyzer.called
  /\ ~analyzer.returned.some
  /\ analyzer.accepted = 7

\* ------------------------------------------------------------------------
\* Properties of one drain (checked under SpecScenario and Spec)
\* ------------------------------------------------------------------------
\* the step is a pitches_vec call
DrainStep ==
  /\ Len(calls') = Len(calls) + 1
  /\ calls'[Len(calls')].op = "pitches_vec"

\* C21: a drain advances time_of_next_unprocessed_sample by hop_size for every
\* window it analyses, confident or not, so that the cursor after the call is
\* the cursor before plus num_windows x hop_size, and it leaves
\* time_of_first_sample and the stored view unchanged.
C21_CursorAdvancesPerWindow ==
  [][DrainStep =>
       /\ time_of_next_unprocessed_sample' =
            time_of_next_unprocessed_sample + Len(analysed') * Delta(window)
       /\ (Len(audio_samples) - index_of_next_unprocessed_sample >= window
             /\ Delta(window) > 0)
            => Len(analysed') =
                 (Len(audio_samples) - index_of_next_unprocessed_sample
                    - window) \div Delta(window)
       /\ UNCHANGED <<time_of_first_sample, audio_samples>>]_vars
C21_Witness ==
  /\ Drained
  /\ Len(analysed) >= 3
  /\ \E j \in 1..Len(analysed) : analysed[j].confident
  /\ \E j \in 1..Len(analysed) : ~analysed[j].confident
  /\ time_of_next_unprocessed_sample =
       before.time_of_next_unprocessed_sample + Len(analysed) * Delta(window)
  /\ Len(pitches) < Len(analysed)

\* C22: every window a drain hands to the estimator lies inside the current
\* view: its index plus window_size is at most the view length, so fill_chunk
\* copies window_size samples and pads none.
C22_WindowsInsideView ==
  Drained =>
    \A j \in 1..Len(analysed) :
      /\ analysed[j].index >= 0
      /\ analysed[j].index + window <= num_audio_samples
      /\ analysed[j].copied = window
      /\ FillChunk(audio_samples, analysed[j].index, window)
           = SubSeq(audio_samples, analysed[j].index + 1,
                    analysed[j].index + window)
C22_Witness ==
  /\ Drained
  /\ Len(analysed) >= 1
  /\ analysed[1].index > 0
  /\ analysed[Len(analysed)].index + window + 2 * Delta(window)
       > num_audio_samples

\* C24: after any successful ingests and drains the cursor's index into the
\* current view is at most the view length, so audio_samples.len() -
\* index_of_next_unprocessed_sample() does not underflow and no drain fails
\* on it.
C24_IndexWithinView ==
  /\ index_of_next_unprocessed_sample <= num_audio_samples
  /\ \A k \in 1..NumCalls : calls[k].result # "subtract_with_overflow"

\* C25: for every window_size construction accepts, sizes below 4 included, a
\* drain on a successfully ingested view returns normally: window_size / 4 is
\* not zero where num_windows divides by it.
C25_HopNeverZeroDivisor ==
  /\ \A k \in 1..NumCalls : calls[k].result # "divide_by_zero"
  /\ (Drained /\ before.num_audio_samples >= window
        /\ UnprocessedLenBefore >= window)
       => Delta(window) > 0

\* C26: the MusicAnalyzer create_analyzer() builds holds the samples of the
\* retained chunks (the most recent 16 at most) in the order the chunks were
\* added, oldest chunk first, as get_latest_samples() orders them.
C26_AnalyzerSamplesOldestFirst ==
  (analyzer.called /\ analyzer.returned.some
     /\ analyzer.accepted = lib_accepted)
    => /\ Len(recent_audio_samples) = Min(lib_accepted, 16)
       /\ analyzer.returned.value.audio_samples
            = FlatMap(Reverse(CQIter(recent_audio_samples)))

\* ------------------------------------------------------------------------
\* Properties of the per-chunk loop (checked under SpecLoop)
\* ------------------------------------------------------------------------
\* C23: in the per-chunk loop (push; once the view holds window_size samples:
\* set_latest_samples_on, then a drain), after the first successful ingest no
\* ingest moves time_of_next_unprocessed_sample: the view's start never
\* overtakes the cursor, no sample is skipped, and consecutive analysed
\* windows over the whole stream start exactly hop_size apart.
C23_LoopNeverSkips ==
  /\ [](/\ \A k \in 1..NumCalls : calls[k].result = "ok"
        /\ Drained =>
             \A j \in 1..Len(analysed) :
               IF WindowBefore(j).some
                 THEN analysed[j].start
                        = WindowBefore(j).value.start + Delta(window)
                 ELSE analysed[j].start = 0)
  /\ [][(stream_pc = "ingest" /\ EverIngested)
          => /\ get_time_of_first_sample <= time_of_next_unprocessed_sample
             /\ time_of_next_unprocessed_sample'
                  = time_of_next_unprocessed_sample]_vars
C23_Witness ==
  /\ window = MAX_WINDOW_SIZE
  /\ pushed_chunks > max_stored_chunks
  /\ Drained
  /\ analysed # <<>>
  /\ before.last_window.some
  /\ time_of_first_sample > 0
====
